---- MODULE Spec2Model ----
(***************************************************************************)
(* digital-twin-proxy (src/src/main.rs): the log tailer, the event log     *)
(* store, and the rolling summary state, as state machines.                *)
(*                                                                         *)
(*   Spec       the monitoring session of the log / ambient command: the   *)
(*              external proxy writing the access log, monitor_squid_logs  *)
(*              polling it, and the supervising command.                   *)
(*   SpecStore  append_log called by one or two appenders, and the         *)
(*              read-since scan of run_analyze.                            *)
(*   SpecSave   SummaryState::load / save driven by the ambient tick and   *)
(*              the one-shot analyze command.                              *)
(*   SpecSession   the monitoring session over an access log that is only  *)
(*              appended to.                                               *)
(*   SpecShutdown  the session of a proxy writing whole lines, with the    *)
(*              tailer task scheduled fairly.                              *)
(*   SpecParse  one call of parse_squid_log_line.                          *)
(*   SpecLlm    one call of summarize_with_llm.                            *)
(*   SpecScan   the scans of run_analyze and ambient_loop over a store     *)
(*              left by earlier sessions.                                  *)
(*   SpecAmbient   the timer and scan of ambient_loop while append_log     *)
(*              writes events and time passes.                             *)
(*                                                                         *)
(* A string is a sequence of atoms (<<"http://", "h1", "/">>), a file is a *)
(* sequence of tokens, and a byte offset counts tokens.                    *)
(***************************************************************************)
EXTENDS Integers, Sequences, FiniteSets, TLC

\* ------------------------------------------------------------------ bounds
MaxLines == 2
MaxTruncations == 1
MaxFaults == 1

\* ------------------------------------------------------------- file tokens
\* The line terminator of the access log.
NL == <<"\n">>

\* One token of the event store (log.ndjson): a chunk of a JSON record as
\* serde_json writes it to the unbuffered file, or the newline of writeln!.
UrlChunk(u) == [k |-> "url", u |-> u, t |-> 0]
TsChunk(t) == [k |-> "ts", u |-> <<>>, t |-> t]
StoreNL == [k |-> "nl", u |-> <<>>, t |-> 0]

VARIABLES
    \* --- the access log of the external proxy (SQUID_LOG_PATH)
    squidInodes,    \* every file ever created at the path: its content
    squidPath,      \* the inode the path names now, 0 when the file is absent
    pending,        \* rest of the line the proxy is in the middle of writing
    nextLine,       \* serial number of the next line the proxy writes
    truncations,    \* number of truncations / rotations so far
    everPartial,    \* the proxy has written a line in two parts
    \* --- monitor_squid_logs
    tpc,            \* position of the tailer task
    last_position,  \* the tail cursor
    current_size,   \* metadata.len() of this poll, NoSize outside the block
    fd,             \* the inode opened by this poll, 0 when none
    \* --- SquidProcess and the supervising command
    mode,           \* "log" or "ambient"
    running,        \* the shared AtomicBool
    childAlive,     \* the external proxy child process
    spc,            \* position of run_log / run_ambient
    \* --- the event log store (log.ndjson)
    store,
    \* --- append_log callers and the read-since scan of run_analyze
    now,            \* Utc::now()
    appenders,      \* the processes that call append_log
    apc,            \* position of each appender inside append_log
    entry,          \* the LogEntry each appender is writing
    appended,       \* the entries whose append_log returned Ok, in order
    rpc,            \* position of run_analyze's scan
    start,          \* parse_since(since_str)
    max_items,      \* the safety cap
    items,          \* the urls the scan collected
    \* --- the summary file (rolling_summary.json), its temp file, the savers
    fsInodes,       \* every file ever created in the data directory: content
    paths,          \* "tmp" and "canon": the inode each names, 0 when absent
    savers,         \* the commands that run: the ambient loop, analyze
    vpc,            \* position of each of them
    prev,           \* the SummaryState each loaded
    outcome,        \* how its last summarize_with_llm call ended
    next_state,     \* the SummaryState it passes to save
    sfd,            \* the temp file it has open, 0 when none
    rounds,         \* summarization runs each has started
    faults,         \* I/O errors and kills injected so far
    committed,      \* the state last renamed into place (at first: on disk)
    anySaved,       \* some save() call has returned Ok
    \* --- one call of parse_squid_log_line
    fields,         \* the fields of the line it is given
    parsed,         \* what it returned
    ppc,            \* "input" before the call, "done" after it
    \* --- one call of summarize_with_llm
    lpc,            \* position of the call
    requests,       \* completion requests sent so far
    first,          \* the response to the first request
    second,         \* the response to the follow-up request
    pendingCalls,   \* the tool calls of the response still to be served
    toolMessages,   \* tool messages pushed onto the conversation
    result,         \* the text returned, None before the return
    \* --- the timer and the scan of ambient_loop
    apos,           \* "wait" at timer.tick().await, "busy" from the call on
    nextTick,       \* the deadline of the timer's next tick
    ticks,          \* ticks completed so far
    new_items,      \* the batch the last tick collected
    seen            \* records the store held at the last scan

proxyVars == <<squidInodes, squidPath, pending, nextLine, truncations,
               everPartial>>
taskVars == <<tpc, last_position, current_size, fd>>
tailVars == <<proxyVars, taskVars>>
cmdVars == <<mode, running, childAlive, spc>>
storeVars == <<now, appenders, apc, entry, appended, rpc, start, max_items,
               items>>
saveVars == <<fsInodes, paths, savers, vpc, prev, outcome, next_state, sfd,
              rounds, committed, anySaved>>
parseVars == <<fields, parsed, ppc>>
llmVars == <<lpc, requests, first, second, pendingCalls, toolMessages, result>>
ambVars == <<apos, nextTick, ticks, new_items, seen>>
vars == <<tailVars, cmdVars, store, storeVars, saveVars, faults, parseVars,
          llmVars, ambVars>>

\* What the monitoring session leaves alone.
offTail == <<storeVars, saveVars, parseVars, llmVars, ambVars>>

NoSize == -1

\* --------------------------------------------------------- access-log lines
Host(n) == <<"h", ToString(n)>>

\* The custom log format has 11 fields; field 6 is the method, field 7 the
\* request target, field 8 the Host header.
LineKinds == {"GET", "CONNECT", "SHORT"}

SquidLine(kind, n) ==
    CASE kind = "GET" ->
           << <<"ts">>, <<"tr">>, <<"ip">>, <<"TCP_MISS/200">>, <<"st">>, <<"GET">>,
              <<"http://">> \o Host(n) \o <<"/">>, Host(n),
              <<"-">>, <<"DIRECT">>, <<"text/html">> >>
      [] kind = "CONNECT" ->
           << <<"ts">>, <<"tr">>, <<"ip">>, <<"TCP_TUNNEL/200">>, <<"st">>, <<"CONNECT">>,
              Host(n) \o <<":443">>, Host(n) \o <<":443">>,
              <<"-">>, <<"DIRECT">>, <<"-">> >>
      [] OTHER ->
           << <<"ts">>, <<"tr">>, <<"ip">>, <<"NONE/000">>, Host(n) >>

StartsWith(s, p) == Len(s) >= 1 /\ s[1] = p

None == <<>>

\* A parser that builds the CONNECT url from the request target.
parse_squid_log_line_TargetForConnect(parts) ==
    IF Len(parts) < 8 THEN None
    ELSE LET url == parts[7]
         IN IF StartsWith(url, "http://") \/ StartsWith(url, "https://") THEN url
            ELSE IF parts[6] = <<"CONNECT">> THEN <<"https://">> \o url
            ELSE <<"http://">> \o parts[8]

\* parse_squid_log_line over the whitespace-separated fields of a line.
parse_squid_log_line(parts) ==
    IF Len(parts) < 8 THEN None
    ELSE LET host == parts[8]
             url == parts[7]
         IN IF StartsWith(url, "http://") \/ StartsWith(url, "https://") THEN url
            ELSE IF parts[6] = <<"CONNECT">> THEN <<"https://">> \o host
            ELSE <<"http://">> \o host

\* BufRead::lines: the segments between terminators; the last segment is a
\* line too when it is not empty, terminated or not.
RECURSIVE SplitLines(_, _)
SplitLines(bytes, cur) ==
    IF bytes = <<>> THEN (IF cur = <<>> THEN <<>> ELSE <<cur>>)
    ELSE IF Head(bytes) = NL THEN <<cur>> \o SplitLines(Tail(bytes), <<>>)
    ELSE SplitLines(Tail(bytes), Append(cur, Head(bytes)))

\* seek_relative(last_position) followed by reading to the end of the file.
ReadFrom(bytes, pos) ==
    IF pos >= Len(bytes) THEN <<>> ELSE SubSeq(bytes, pos + 1, Len(bytes))

RECURSIVE ParsedUrls(_)
ParsedUrls(lines) ==
    IF lines = <<>> THEN <<>>
    ELSE LET u == parse_squid_log_line(Head(lines))
         IN (IF u = None THEN <<>> ELSE <<u>>) \o ParsedUrls(Tail(lines))

\* -------------------------------------------------------------- event store
\* The record append_log writes for a url: to_writer, then writeln!.
RecordBytes(u, t) == <<UrlChunk(u), TsChunk(t), StoreNL>>

RECURSIVE RecordsFor(_, _, _)
RecordsFor(urls, failed, i) ==
    IF i > Len(urls) THEN <<>>
    ELSE (IF i \in failed THEN <<>> ELSE RecordBytes(urls[i], 0))
         \o RecordsFor(urls, failed, i + 1)

RECURSIVE SplitStore(_, _)
SplitStore(bytes, cur) ==
    IF bytes = <<>> THEN (IF cur = <<>> THEN <<>> ELSE <<cur>>)
    ELSE IF Head(bytes) = StoreNL THEN <<cur>> \o SplitStore(Tail(bytes), <<>>)
    ELSE SplitStore(Tail(bytes), Append(cur, Head(bytes)))

\* serde_json::from_str::<LogEntry>: a line is a record when it is exactly
\* one url member followed by one ts member.
IsEntry(line) == Len(line) = 2 /\ line[1].k = "url" /\ line[2].k = "ts"

RECURSIVE EntryUrls(_)
EntryUrls(lines) ==
    IF lines = <<>> THEN <<>>
    ELSE (IF IsEntry(Head(lines)) THEN <<Head(lines)[1].u>> ELSE <<>>)
         \o EntryUrls(Tail(lines))

StoreUrls == EntryUrls(SplitStore(store, <<>>))

\* ------------------------------------------------------- the external proxy
squidExists == squidPath # 0
squidLog == IF squidExists THEN squidInodes[squidPath] ELSE <<>>

\* A file that no path names and the tailer has not open is gone.
Live(inodes, path, f) ==
    [i \in 1..Len(inodes) |-> IF i \in {path, f} THEN inodes[i] ELSE <<>>]

WriteSquid(bytes) ==
    squidInodes' = [squidInodes EXCEPT ![squidPath] = @ \o bytes]

\* The proxy creates its access log.
ProxyCreate ==
    /\ childAlive /\ ~squidExists
    /\ squidInodes' = Append(squidInodes, <<>>)
    /\ squidPath' = Len(squidInodes) + 1
    /\ UNCHANGED <<pending, nextLine, truncations, everPartial, taskVars,
                   cmdVars, store, faults>>
    /\ UNCHANGED offTail

\* The proxy writes one whole line with its terminator.
ProxyAppendLine ==
    /\ childAlive /\ squidExists /\ pending = <<>> /\ nextLine <= MaxLines
    /\ \E kind \in LineKinds :
         WriteSquid(Append(SquidLine(kind, nextLine), NL))
    /\ nextLine' = nextLine + 1
    /\ UNCHANGED <<squidPath, pending, truncations, everPartial, taskVars,
                   cmdVars, store, faults>>
    /\ UNCHANGED offTail

\* The proxy writes the beginning of a line; the rest follows later.
ProxyAppendPartial ==
    /\ childAlive /\ squidExists /\ pending = <<>> /\ nextLine <= MaxLines
    /\ \E kind \in {"GET"}, cut \in {7, 8} :
         LET line == SquidLine(kind, nextLine)
         IN /\ WriteSquid(SubSeq(line, 1, cut))
            /\ pending' = Append(SubSeq(line, cut + 1, Len(line)), NL)
    /\ nextLine' = nextLine + 1
    /\ everPartial' = TRUE
    /\ UNCHANGED <<squidPath, truncations, taskVars, cmdVars, store, faults>>
    /\ UNCHANGED offTail

ProxyFinishLine ==
    /\ childAlive /\ squidExists /\ pending # <<>>
    /\ WriteSquid(pending)
    /\ pending' = <<>>
    /\ UNCHANGED <<squidPath, nextLine, truncations, everPartial, taskVars,
                   cmdVars, store, faults>>
    /\ UNCHANGED offTail

\* The access log is truncated in place.
Truncate ==
    /\ squidExists /\ squidLog # <<>> /\ pending = <<>>
    /\ truncations < MaxTruncations
    /\ squidInodes' = [squidInodes EXCEPT ![squidPath] = <<>>]
    /\ truncations' = truncations + 1
    /\ UNCHANGED <<squidPath, pending, nextLine, everPartial, taskVars,
                   cmdVars, store, faults>>
    /\ UNCHANGED offTail

\* The access log is moved away (rotation); the proxy creates a new one later.
Rotate ==
    /\ squidExists /\ pending = <<>>
    /\ truncations < MaxTruncations
    /\ squidPath' = 0
    /\ squidInodes' = Live(squidInodes, 0, fd)
    /\ truncations' = truncations + 1
    /\ UNCHANGED <<pending, nextLine, everPartial, taskVars,
                   cmdVars, store, faults>>
    /\ UNCHANGED offTail

\* ------------------------------------------------------- monitor_squid_logs
\* A loop that does not look at the flag.
KeepsPolling_Ignored(flag) == TRUE

\* if !running.load(Ordering::SeqCst) { break; }
KeepsPolling(flag) == flag

LoopTop ==
    /\ tpc = "top"
    /\ tpc' = IF KeepsPolling(running) THEN "exists" ELSE "done"
    /\ UNCHANGED <<proxyVars, last_position, current_size, fd, faults,
                   cmdVars, store>>
    /\ UNCHANGED offTail

\* if Path::new(SQUID_LOG_PATH).exists()
CheckExists ==
    /\ tpc = "exists"
    /\ tpc' = IF squidExists THEN "open" ELSE "sleep"
    /\ UNCHANGED <<proxyVars, last_position, current_size, fd, faults,
                   cmdVars, store>>
    /\ UNCHANGED offTail

\* File::open(..)?, file.metadata()?, if current_size > last_position
OpenFile ==
    /\ tpc = "open"
    /\ \/ /\ squidExists
          /\ fd' = squidPath
          /\ current_size' = Len(squidLog)
          /\ tpc' = IF Len(squidLog) > last_position THEN "read" ELSE "sleep"
          /\ UNCHANGED faults
       \/ /\ ~squidExists
          /\ tpc' = "failed"
          /\ UNCHANGED <<fd, current_size, faults>>
       \/ /\ squidExists /\ faults < MaxFaults
          /\ faults' = faults + 1
          /\ tpc' = "failed"
          /\ UNCHANGED <<fd, current_size>>
    /\ UNCHANGED <<proxyVars, last_position, cmdVars, store>>
    /\ UNCHANGED offTail

\* seek_relative(last_position)?, then for every line read up to the end of
\* the file: parse it and append_log the url; an append failure is reported
\* and the line dropped.
ReadLines ==
    /\ tpc = "read"
    /\ \/ LET urls == ParsedUrls(SplitLines(ReadFrom(squidInodes[fd], last_position), <<>>))
          IN \E failed \in SUBSET (1..Len(urls)) :
               /\ faults + Cardinality(failed) <= MaxFaults
               /\ faults' = faults + Cardinality(failed)
               /\ store' = store \o RecordsFor(urls, failed, 1)
               /\ tpc' = "update"
       \/ /\ faults < MaxFaults
          /\ faults' = faults + 1
          /\ tpc' = "failed"
          /\ UNCHANGED store
    /\ UNCHANGED <<proxyVars, last_position, current_size, fd, cmdVars>>
    /\ UNCHANGED offTail

\* A cursor advanced by the size instead of set to it.
NextPosition_Advanced(pos, size) == pos + size

\* last_position = current_size;
NextPosition(pos, size) == size

UpdateCursor ==
    /\ tpc = "update"
    /\ last_position' = NextPosition(last_position, current_size)
    /\ tpc' = "sleep"
    /\ UNCHANGED <<proxyVars, current_size, fd, faults, cmdVars, store>>
    /\ UNCHANGED offTail

\* tokio::time::sleep(100 ms).await, then the next iteration.
Sleep ==
    /\ tpc = "sleep"
    /\ tpc' = "top"
    /\ current_size' = NoSize
    /\ fd' = 0
    /\ squidInodes' = Live(squidInodes, squidPath, 0)
    /\ UNCHANGED <<squidPath, pending, nextLine, truncations, everPartial,
                   last_position, faults, cmdVars, store>>
    /\ UNCHANGED offTail

\* ------------------------------------------------ SquidProcess and commands
\* SquidProcess::stop: running.store(false), child.kill(). The child has not
\* been waited for, so the SIGKILL is delivered.
StopSquid ==
    /\ running' = FALSE
    /\ childAlive' = FALSE

\* A SquidProcess whose drop does nothing.
DropStops_Never == FALSE

\* impl Drop for SquidProcess: let _ = self.stop();
DropStops == TRUE

\* The SquidProcess goes out of scope at the end of the async block.
DropSquid ==
    IF DropStops THEN StopSquid ELSE UNCHANGED <<running, childAlive>>

\* signal::ctrl_c() completes (in run_ambient: with any result), then
\* squid.stop().
CtrlC ==
    /\ spc = "wait"
    /\ StopSquid
    /\ spc' = "stopped"
    /\ UNCHANGED <<tailVars, mode, store, faults>>
    /\ UNCHANGED offTail

\* run_log: signal::ctrl_c().await? returns the error; the block is left
\* without the call of stop.
SignalError ==
    /\ spc = "wait" /\ mode = "log"
    /\ faults < MaxFaults
    /\ faults' = faults + 1
    /\ DropSquid
    /\ spc' = "shutdown"
    /\ UNCHANGED <<tailVars, mode, store>>
    /\ UNCHANGED offTail

\* run_ambient: select! { _ = log_monitor => {} }, then squid.stop().
MonitorFinished ==
    /\ spc = "wait" /\ mode = "ambient"
    /\ tpc \in {"done", "failed"}
    /\ StopSquid
    /\ spc' = "stopped"
    /\ UNCHANGED <<tailVars, mode, store, faults>>
    /\ UNCHANGED offTail

\* run_ambient: select! { _ = ambient => {} }: the ambient task has ended
\* (ambient_loop never returns; the task ends when it panics), then
\* squid.stop().
AmbientFinished ==
    /\ spc = "wait" /\ mode = "ambient"
    /\ StopSquid
    /\ spc' = "stopped"
    /\ UNCHANGED <<tailVars, mode, store, faults>>
    /\ UNCHANGED offTail

\* Ok(()) ends the async block: the SquidProcess is dropped, block_on
\* returns and the runtime shuts down.
LeaveBlock ==
    /\ spc = "stopped"
    /\ DropSquid
    /\ spc' = "shutdown"
    /\ UNCHANGED <<tailVars, mode, store, faults>>
    /\ UNCHANGED offTail

\* run_log: log_monitor.abort(); both commands: the runtime shutting down.
\* Either cancels a task still alive at its await, the inter-poll sleep.
AbortMonitor ==
    /\ \/ spc = "stopped" /\ mode = "log"
       \/ spc = "shutdown"
    /\ tpc = "sleep"
    /\ tpc' = "aborted"
    /\ UNCHANGED <<proxyVars, last_position, current_size, fd, faults,
                   cmdVars, store>>
    /\ UNCHANGED offTail

\* The runtime is gone once the task has yielded or ended; the command
\* returns.
CommandReturns ==
    /\ spc = "shutdown"
    /\ tpc \in {"done", "failed", "aborted"}
    /\ spc' = "returned"
    /\ UNCHANGED <<tailVars, mode, running, childAlive, store, faults>>
    /\ UNCHANGED offTail

\* ------------------------------------------- append_log and the read-since scan
MaxAppends == 3
MaxTime == 1
MaxItems == 3

Appenders == {1, 2}
Urls == {<<"http://", "a">>, <<"https://", "b">>}

\* A line of the store that is no record (left by an earlier format).
Junk == [k |-> "junk", u |-> <<>>, t |-> 0]

\* Bytes of the store that are no UTF-8.
Garbled == [k |-> "bin", u |-> <<>>, t |-> 0]

\* BufRead::lines yields Ok for a line of valid UTF-8 and Err otherwise.
Decodable(line) == \A i \in 1..Len(line) : line[i] # Garbled

NoEntry == [url |-> <<>>, ts |-> 0]

\* What the store specification leaves alone.
offStore == <<tailVars, cmdVars, saveVars, faults, parseVars, llmVars,
              ambVars>>

\* let entry = LogEntry { url, ts: Utc::now() }; OpenOptions .. open(..)
AppendBegin(a) ==
    /\ a \in appenders /\ apc[a] = "idle" /\ rpc = "idle"
    /\ Len(appended) + Cardinality({b \in appenders : apc[b] # "idle"}) < MaxAppends
    /\ \E u \in Urls : entry' = [entry EXCEPT ![a] = [url |-> u, ts |-> now]]
    /\ apc' = [apc EXCEPT ![a] = "url"]
    /\ UNCHANGED <<store, now, appenders, appended, rpc, start, max_items, items>>
    /\ UNCHANGED offStore

\* serde_json::to_writer(&mut file, &entry): the url member ...
AppendWriteUrl(a) ==
    /\ apc[a] = "url" /\ rpc = "idle"
    /\ store' = Append(store, UrlChunk(entry[a].url))
    /\ apc' = [apc EXCEPT ![a] = "ts"]
    /\ UNCHANGED <<now, appenders, entry, appended, rpc, start, max_items, items>>
    /\ UNCHANGED offStore

\* ... and the ts member, each its own write to the unbuffered file.
AppendWriteTs(a) ==
    /\ apc[a] = "ts" /\ rpc = "idle"
    /\ store' = Append(store, TsChunk(entry[a].ts))
    /\ apc' = [apc EXCEPT ![a] = "nl"]
    /\ UNCHANGED <<now, appenders, entry, appended, rpc, start, max_items, items>>
    /\ UNCHANGED offStore

\* writeln!(file)?; Ok(())
AppendNewline(a) ==
    /\ apc[a] = "nl" /\ rpc = "idle"
    /\ store' = Append(store, StoreNL)
    /\ apc' = [apc EXCEPT ![a] = "idle"]
    /\ appended' = Append(appended, entry[a])
    /\ entry' = [entry EXCEPT ![a] = NoEntry]
    /\ UNCHANGED <<now, appenders, rpc, start, max_items, items>>
    /\ UNCHANGED offStore

Tick ==
    /\ now < MaxTime /\ rpc = "idle"
    /\ now' = now + 1
    /\ UNCHANGED <<store, appenders, apc, entry, appended, rpc, start, max_items, items>>
    /\ UNCHANGED offStore

\* The cutoff test made strict: an entry stamped exactly at the cutoff is lost.
KeepSince_Strict(ts, cutoff) == ts > cutoff

\* if entry.ts >= start
KeepSince(ts, cutoff) == ts >= cutoff

\* if items.len() >= max_items { break; }
CapReached(n, cap) == n >= cap

\* The scan loop of run_analyze over the lines of the store: a record at or
\* after the cutoff is pushed, then the cap is tested; a line that is no
\* record is reported and `continue` skips the test; map_while(Result::ok)
\* ends the loop at the first line that is no UTF-8.
RECURSIVE ScanSince(_, _, _, _)
ScanSince(lines, cutoff, cap, acc) ==
    IF lines = <<>> THEN acc
    ELSE LET line == Head(lines)
         IN IF ~Decodable(line) THEN acc
            ELSE IF IsEntry(line)
            THEN LET acc2 == IF KeepSince(line[2].t, cutoff)
                             THEN Append(acc, line[1].u) ELSE acc
                 IN IF CapReached(Len(acc2), cap) THEN acc2
                    ELSE ScanSince(Tail(lines), cutoff, cap, acc2)
            ELSE ScanSince(Tail(lines), cutoff, cap, acc)

\* run_analyze: parse_since, open the store, scan it.
ReadSince ==
    /\ rpc = "idle"
    /\ \E c \in 0..(MaxTime + 1), m \in 0..MaxItems :
         /\ start' = c
         /\ max_items' = m
         /\ items' = ScanSince(SplitStore(store, <<>>), c, m, <<>>)
    /\ rpc' = "done"
    /\ UNCHANGED <<store, now, appenders, apc, entry, appended>>
    /\ UNCHANGED offStore

\* run_analyze returns; its locals are gone.
AnalyzeReturn ==
    /\ rpc = "done"
    /\ rpc' = "idle"
    /\ start' = 0 /\ max_items' = 0 /\ items' = <<>>
    /\ UNCHANGED <<store, now, appenders, apc, entry, appended>>
    /\ UNCHANGED offStore

StoreIdle ==
    /\ now = 0
    /\ appenders = {}
    /\ apc = [a \in Appenders |-> "idle"]
    /\ entry = [a \in Appenders |-> NoEntry]
    /\ appended = <<>>
    /\ rpc = "idle"
    /\ start = 0 /\ max_items = 0 /\ items = <<>>

\* --------------------------------------------- SummaryState: load and save
MaxRounds == 1
Interval == 1

Savers == {"ambient", "analyze"}
Texts == {"", "s1"}

\* The files of the data directory: at most one per path and per open file.
InodeIds == 1..4

\* One token of the summary file: a member of the JSON object, or a hole
\* left by a write beyond the end of the file.
TextChunk(x) == [k |-> "text", s |-> x, t |-> 0]
UpdatedChunk(t) == [k |-> "updated", s |-> "", t |-> t]
Zero == [k |-> "zero", s |-> "", t |-> 0]

\* #[derive(Default)]: empty text, the epoch.
DefaultState == [text |-> "", updated |-> 0]

\* serde_json::to_vec_pretty(self)
Serialize(st) == <<TextChunk(st.text), UpdatedChunk(st.updated)>>

\* serde_json::from_slice(&data).ok(): the whole object or nothing.
IsState(bytes) ==
    Len(bytes) = 2 /\ bytes[1].k = "text" /\ bytes[2].k = "updated"

\* SummaryState::load over the bytes of a file, or of no file.
LoadFrom(inode) ==
    IF inode = 0 THEN DefaultState
    ELSE LET bytes == fsInodes[inode]
         IN IF IsState(bytes) THEN [text |-> bytes[1].s, updated |-> bytes[2].t]
            ELSE DefaultState

\* SummaryState::load()
Load == LoadFrom(paths["canon"])

\* save writing the summary file itself.
SaveTarget_InPlace == "canon"

\* let tmp = path.with_extension("tmp"): the path save writes.
SaveTarget == "tmp"

\* A write of a buffer at an offset of a file.
RECURSIVE WriteAt(_, _, _)
WriteAt(bytes, off, buf) ==
    IF buf = <<>> THEN bytes
    ELSE LET filled == IF Len(bytes) < off
                       THEN bytes \o [i \in 1..(off - Len(bytes)) |-> Zero]
                       ELSE bytes
             one == IF Len(filled) = off THEN Append(filled, Head(buf))
                    ELSE [filled EXCEPT ![off + 1] = Head(buf)]
         IN WriteAt(one, off + 1, Tail(buf))

\* A file lives while a path names it or a process has it open.
Referenced(ps, fds) == {ps[f] : f \in DOMAIN ps} \cup {fds[q] : q \in DOMAIN fds}

FreeInode ==
    CHOOSE i \in InodeIds :
        /\ i \notin Referenced(paths, sfd)
        /\ \A j \in InodeIds : j < i => j \in Referenced(paths, sfd)

\* The file system after a step: new contents, names and open files; a file
\* nothing refers to any more is gone.
FsStep(inodes, ps, fds) ==
    /\ paths' = ps
    /\ sfd' = fds
    /\ fsInodes' = [i \in InodeIds |->
                        IF i \in Referenced(ps, fds) THEN inodes[i] ELSE <<>>]

\* The ambient scan of the store: every record at or after the cutoff, up
\* to the first line that is no UTF-8, where map_while(Result::ok) ends it.
RECURSIVE AmbientItems(_, _)
AmbientItems(lines, cutoff) ==
    IF lines = <<>> THEN <<>>
    ELSE IF ~Decodable(Head(lines)) THEN <<>>
    ELSE (IF IsEntry(Head(lines)) /\ Head(lines)[2].t >= cutoff
          THEN <<Head(lines)[1].u>> ELSE <<>>)
         \o AmbientItems(Tail(lines), cutoff)

\* What the save specification leaves alone.
offSave == <<tailVars, cmdVars, store, storeVars, parseVars, llmVars,
            ambVars>>

\* Where a command goes when its run is over: the ambient loop waits for the
\* next tick, analyze returns.
Rest(p) == IF p = "ambient" THEN "idle" ELSE "returned"

InSave(p) == vpc[p] \in {"open", "write", "write2", "rename"}

\* A loop that summarizes on every tick.
NothingNew_Never(found) == FALSE

\* if new_items.is_empty() { continue; }
NothingNew(found) == found = <<>>

\* ambient_loop: timer.tick(), the scan of the store, `continue` when nothing
\* is new, else SummaryState::load() and the call of summarize_with_llm.
AmbientTick ==
    /\ "ambient" \in savers /\ vpc["ambient"] = "idle"
    /\ rounds["ambient"] < MaxRounds
    /\ rounds' = [rounds EXCEPT !["ambient"] = @ + 1]
    /\ outcome' = [outcome EXCEPT !["ambient"] = "none"]
    /\ IF NothingNew(AmbientItems(SplitStore(store, <<>>), now - Interval))
       THEN UNCHANGED <<vpc, prev>>
       ELSE /\ prev' = [prev EXCEPT !["ambient"] = Load]
            /\ vpc' = [vpc EXCEPT !["ambient"] = "summarize"]
    /\ UNCHANGED <<fsInodes, paths, savers, next_state, sfd, faults,
                   committed, anySaved>>
    /\ UNCHANGED offSave

\* run_analyze: the scan, return when nothing matches, else
\* SummaryState::load() and the call of summarize_with_llm.
AnalyzeStart ==
    /\ "analyze" \in savers /\ vpc["analyze"] = "idle"
    /\ rounds["analyze"] < MaxRounds
    /\ rounds' = [rounds EXCEPT !["analyze"] = @ + 1]
    /\ outcome' = [outcome EXCEPT !["analyze"] = "none"]
    /\ \E c \in 0..(MaxTime + 1), m \in 0..1 :
         IF ScanSince(SplitStore(store, <<>>), c, m, <<>>) = <<>>
         THEN /\ vpc' = [vpc EXCEPT !["analyze"] = "returned"]
              /\ UNCHANGED prev
         ELSE /\ prev' = [prev EXCEPT !["analyze"] = Load]
              /\ vpc' = [vpc EXCEPT !["analyze"] = "summarize"]
    /\ UNCHANGED <<fsInodes, paths, savers, next_state, sfd, faults,
                   committed, anySaved>>
    /\ UNCHANGED offSave

\* A caller that saves whatever the call returned.
SavesOn_Always(res) == TRUE

\* Ok(summary) => save; Err(e) => report (ambient_loop) / `?` (run_analyze).
SavesOn(res) == res = "ok"

\* summarize_with_llm returns Ok(text) or an error, or panics on a response
\* without choices; on Ok the caller builds the new state with Utc::now().
Summarize(p) ==
    /\ vpc[p] = "summarize"
    /\ \E res \in {"ok", "err", "panic"}, text \in Texts :
         /\ res # "ok" => text = ""
         /\ outcome' = [outcome EXCEPT ![p] = res]
         /\ IF res = "panic"
            THEN /\ vpc' = [vpc EXCEPT ![p] = "panicked"]
                 /\ UNCHANGED next_state
            ELSE IF SavesOn(res)
            THEN /\ vpc' = [vpc EXCEPT ![p] = "open"]
                 /\ next_state' = [next_state EXCEPT ![p] =
                                       [text |-> text, updated |-> now]]
            ELSE /\ vpc' = [vpc EXCEPT ![p] = Rest(p)]
                 /\ UNCHANGED next_state
    /\ UNCHANGED <<fsInodes, paths, savers, prev, sfd, rounds, faults,
                   committed, anySaved>>
    /\ UNCHANGED offSave

\* The loaded state goes out of scope with the run.
DropLoaded(p) == prev' = [prev EXCEPT ![p] = DefaultState]

\* save returns Err: the caller reports it and goes on; the file it had open
\* is closed.
SaveFails(p) ==
    /\ faults < MaxFaults
    /\ faults' = faults + 1
    /\ vpc' = [vpc EXCEPT ![p] = Rest(p)]
    /\ next_state' = [next_state EXCEPT ![p] = DefaultState]
    /\ DropLoaded(p)
    /\ FsStep(fsInodes, paths, [sfd EXCEPT ![p] = 0])

\* save returns Ok.
SaveDone(p) ==
    /\ vpc' = [vpc EXCEPT ![p] = Rest(p)]
    /\ next_state' = [next_state EXCEPT ![p] = DefaultState]
    /\ DropLoaded(p)

\* fs::write(&tmp, ..): the file is created, or truncated when it is there.
SaveOpen(p) ==
    /\ vpc[p] = "open"
    /\ \/ /\ LET old == paths[SaveTarget]
                 ino == IF old = 0 THEN FreeInode ELSE old
             IN FsStep([fsInodes EXCEPT ![ino] = <<>>],
                       [paths EXCEPT ![SaveTarget] = ino],
                       [sfd EXCEPT ![p] = ino])
          /\ vpc' = [vpc EXCEPT ![p] = "write"]
          /\ UNCHANGED <<faults, next_state, prev>>
       \/ SaveFails(p)
    /\ UNCHANGED <<savers, outcome, rounds, committed, anySaved>>
    /\ UNCHANGED offSave

\* write_all: the whole buffer in one write, or a first part of it; a write
\* error leaves what was written.
SaveWrite(p) ==
    /\ vpc[p] = "write"
    /\ \/ /\ FsStep([fsInodes EXCEPT ![sfd[p]] =
                         WriteAt(@, 0, Serialize(next_state[p]))],
                    paths, [sfd EXCEPT ![p] = 0])
          /\ vpc' = [vpc EXCEPT ![p] = "rename"]
          /\ UNCHANGED <<faults, next_state, prev>>
       \/ /\ FsStep([fsInodes EXCEPT ![sfd[p]] =
                         WriteAt(@, 0, SubSeq(Serialize(next_state[p]), 1, 1))],
                    paths, sfd)
          /\ vpc' = [vpc EXCEPT ![p] = "write2"]
          /\ UNCHANGED <<faults, next_state, prev>>
       \/ SaveFails(p)
    /\ UNCHANGED <<savers, outcome, rounds, committed, anySaved>>
    /\ UNCHANGED offSave

\* The rest of the buffer.
SaveWriteRest(p) ==
    /\ vpc[p] = "write2"
    /\ \/ /\ FsStep([fsInodes EXCEPT ![sfd[p]] =
                         WriteAt(@, 1, SubSeq(Serialize(next_state[p]), 2, 2))],
                    paths, [sfd EXCEPT ![p] = 0])
          /\ vpc' = [vpc EXCEPT ![p] = "rename"]
          /\ UNCHANGED <<faults, next_state, prev>>
       \/ SaveFails(p)
    /\ UNCHANGED <<savers, outcome, rounds, committed, anySaved>>
    /\ UNCHANGED offSave

\* fs::rename(tmp, path)?; Ok(()): fails when the temp file is not there.
SaveRename(p) ==
    /\ vpc[p] = "rename"
    /\ \/ /\ paths[SaveTarget] # 0
          /\ FsStep(fsInodes,
                    IF SaveTarget = "canon" THEN paths
                    ELSE [paths EXCEPT !["canon"] = paths[SaveTarget],
                                       ![SaveTarget] = 0],
                    sfd)
          /\ committed' = next_state[p]
          /\ anySaved' = TRUE
          /\ SaveDone(p)
          /\ UNCHANGED faults
       \/ /\ paths[SaveTarget] = 0
          /\ SaveDone(p)
          /\ UNCHANGED <<fsInodes, paths, sfd, faults, committed, anySaved>>
       \/ /\ paths[SaveTarget] # 0
          /\ SaveFails(p)
          /\ UNCHANGED <<committed, anySaved>>
    /\ UNCHANGED <<savers, outcome, rounds>>
    /\ UNCHANGED offSave

\* The process is killed in the middle of save.
Crash(p) ==
    /\ InSave(p) /\ faults < MaxFaults
    /\ faults' = faults + 1
    /\ vpc' = [vpc EXCEPT ![p] = "crashed"]
    /\ next_state' = [next_state EXCEPT ![p] = DefaultState]
    /\ DropLoaded(p)
    /\ FsStep(fsInodes, paths, [sfd EXCEPT ![p] = 0])
    /\ UNCHANGED <<savers, outcome, rounds, committed, anySaved>>
    /\ UNCHANGED offSave

\* The command is started again.
Restart(p) ==
    /\ vpc[p] \in {"crashed", "returned"}
    /\ vpc' = [vpc EXCEPT ![p] = "idle"]
    /\ UNCHANGED <<fsInodes, paths, savers, prev, outcome, next_state, sfd,
                   rounds, faults, committed, anySaved>>
    /\ UNCHANGED offSave

SaveIdle ==
    /\ fsInodes = [i \in InodeIds |-> <<>>]
    /\ paths = [f \in {"tmp", "canon"} |-> 0]
    /\ savers = {}
    /\ vpc = [p \in Savers |-> "idle"]
    /\ prev = [p \in Savers |-> DefaultState]
    /\ outcome = [p \in Savers |-> "none"]
    /\ next_state = [p \in Savers |-> DefaultState]
    /\ sfd = [p \in Savers |-> 0]
    /\ rounds = [p \in Savers |-> 0]
    /\ committed = DefaultState
    /\ anySaved = FALSE

\* The monitoring session before anything has happened.
TailIdle ==
    /\ squidInodes = <<>> /\ squidPath = 0
    /\ pending = <<>>
    /\ nextLine = 1
    /\ truncations = 0
    /\ everPartial = FALSE
    /\ tpc = "top"
    /\ last_position = 0
    /\ current_size = NoSize
    /\ fd = 0
    /\ mode = "log" /\ running = TRUE /\ childAlive = TRUE /\ spc = "wait"

\* The ambient loop before its first tick.
AmbientIdle ==
    /\ apos = "wait"
    /\ nextTick = 0
    /\ ticks = 0
    /\ new_items = <<>>
    /\ seen = 0

\* ----------------------------------------------- one call of summarize_with_llm
MaxCalls == 2

\* What the orchestrator's specification leaves alone.
offLlm == <<tailVars, cmdVars, store, storeVars, saveVars, faults, parseVars,
           ambVars>>

\* Option<T>
Some(x) == <<x>>

\* A tool call of a response: fetch_page_content with a url argument, with
\* arguments that are no JSON, with JSON arguments that hold no url string,
\* or the call of a function of another name.
CallKinds == {"fetch", "badjson", "nourl", "other"}

RECURSIVE CallLists(_)
CallLists(n) ==
    IF n = 0 THEN {<<>>}
    ELSE CallLists(n - 1) \cup
         {Append(l, c) : l \in {k \in CallLists(n - 1) : Len(k) = n - 1},
                         c \in CallKinds}

\* choices[0].message of a response.
Messages(text) ==
    [tool_calls : {None} \cup {Some(l) : l \in CallLists(MaxCalls)},
     content : {None, Some(text)}]

\* A chat completion response: no choice, or one.
Responses(text) == {<<>>} \cup {<<m>> : m \in Messages(text)}

\* The follow-up response asks for tools again or not.
FollowUps(text) ==
    {r \in Responses(text) :
        r # <<>> => r[1].tool_calls \in {None, Some(<<"fetch">>)}}

NoResponse == <<>>

LlmIdle ==
    /\ lpc = "start"
    /\ requests = 0
    /\ first = NoResponse /\ second = NoResponse
    /\ pendingCalls = <<>>
    /\ toolMessages = 0
    /\ result = None

\* let response = client.chat().create(request).await?; then
\* if let Some(tool_calls) = response.choices[0].message.tool_calls.as_ref()
LlmFirstRequest ==
    /\ lpc = "start"
    /\ requests' = requests + 1
    /\ \/ /\ lpc' = "err"
          /\ UNCHANGED <<first, pendingCalls>>
       \/ \E r \in Responses("first") :
            /\ first' = r
            /\ IF r = <<>>
               THEN lpc' = "panic" /\ UNCHANGED pendingCalls
               ELSE IF r[1].tool_calls # None
               THEN lpc' = "tools" /\ pendingCalls' = r[1].tool_calls[1]
               ELSE lpc' = "final" /\ UNCHANGED pendingCalls
    /\ UNCHANGED <<second, toolMessages, result>>
    /\ UNCHANGED offLlm

\* One pass of `for tool_call in tool_calls`: a call of fetch_page_content
\* has its arguments parsed (`?`), and when they hold a url the page is
\* fetched (`?`) and a tool message pushed; any other call is skipped.
LlmToolCall ==
    /\ lpc = "tools" /\ pendingCalls # <<>>
    /\ LET call == Head(pendingCalls)
       IN \/ /\ call = "fetch"
             /\ toolMessages' = toolMessages + 1
             /\ pendingCalls' = Tail(pendingCalls)
             /\ UNCHANGED lpc
          \/ /\ call \in {"fetch", "badjson"}
             /\ lpc' = "err"
             /\ UNCHANGED <<toolMessages, pendingCalls>>
          \/ /\ call \in {"nourl", "other"}
             /\ pendingCalls' = Tail(pendingCalls)
             /\ UNCHANGED <<lpc, toolMessages>>
    /\ UNCHANGED <<requests, first, second, result>>
    /\ UNCHANGED offLlm

\* After a follow-up response the function goes on to the tool calls of
\* that response.
AfterFollowUp_Loop(msg) ==
    IF msg.tool_calls # None THEN "tools"
    ELSE IF msg.content # None THEN "done" ELSE "final"

\* if let Some(content) = response.choices[0].message.content.as_ref() {
\*     return Ok(content.clone()); }   and the end of the `if let` block.
AfterFollowUp(msg) ==
    IF msg.content # None THEN "done" ELSE "final"

\* The second client.chat().create(request).await? and the test of its
\* content.
LlmFollowUp ==
    /\ lpc = "tools" /\ pendingCalls = <<>>
    /\ requests' = requests + 1
    /\ \/ /\ lpc' = "err"
          /\ UNCHANGED <<second, pendingCalls, result>>
       \/ \E r \in FollowUps("second") :
            /\ second' = r
            /\ IF r = <<>>
               THEN lpc' = "panic" /\ UNCHANGED <<pendingCalls, result>>
               ELSE LET to == AfterFollowUp(r[1])
                    IN /\ lpc' = to
                       /\ pendingCalls' = IF to = "tools" THEN r[1].tool_calls[1]
                                          ELSE <<>>
                       /\ result' = IF to = "done" THEN r[1].content ELSE None
    /\ UNCHANGED <<first, toolMessages>>
    /\ UNCHANGED offLlm

\* After the `if let` block `response` is the first response again:
\* if let Some(content) = response.choices[0].message.content.as_ref() {
\*     return Ok(content.clone()); }  Ok(String::new())
LlmFinal ==
    /\ lpc = "final"
    /\ result' = IF first[1].content # None THEN first[1].content ELSE Some("")
    /\ lpc' = "done"
    /\ UNCHANGED <<requests, first, second, pendingCalls, toolMessages>>
    /\ UNCHANGED offLlm

\* ------------------------------------------- one call of parse_squid_log_line
\* What the parser's specification leaves alone.
offParse == <<tailVars, cmdVars, store, storeVars, saveVars, faults, llmVars,
             ambVars>>

Methods == {<<"GET">>, <<"CONNECT">>, <<"POST">>}
Targets == {<<"http://", "h", "1", "/">>, <<"https://", "h", "1", "/">>,
            <<"h", "1", ":443">>, <<"-">>}
HostFields == {<<"h", "1">>, <<"h", "2", ":443">>, <<"-">>}
FieldCounts == {5, 7, 8, 11}

\* A line of the access log: the 11 fields of the custom format.
FullLine(m, ru, h) ==
    << <<"ts">>, <<"tr">>, <<"ip">>, <<"TCP_MISS/200">>, <<"st">>, m, ru, h,
       <<"-">>, <<"DIRECT">>, <<"-">> >>

\* The lines the parser is called on: whole ones and ones cut short.
ParseInputs ==
    {SubSeq(FullLine(m, ru, h), 1, n) :
        m \in Methods, ru \in Targets, h \in HostFields, n \in FieldCounts}

ParseIdle ==
    /\ fields = <<>> /\ parsed = None /\ ppc = "input"

InitParse ==
    /\ TailIdle
    /\ store = <<>>
    /\ StoreIdle
    /\ SaveIdle
    /\ faults = 0
    /\ fields \in ParseInputs
    /\ parsed = None
    /\ ppc = "input"
    /\ LlmIdle
    /\ AmbientIdle

\* let url = parse_squid_log_line(&line)
ParseLine ==
    /\ ppc = "input"
    /\ parsed' = parse_squid_log_line(fields)
    /\ ppc' = "done"
    /\ UNCHANGED fields
    /\ UNCHANGED offParse

NextParse == ParseLine

SpecParse == InitParse /\ [][NextParse]_vars

InitLlm ==
    /\ TailIdle
    /\ store = <<>>
    /\ StoreIdle
    /\ SaveIdle
    /\ faults = 0
    /\ ParseIdle
    /\ LlmIdle
    /\ AmbientIdle

NextLlm ==
    \/ LlmFirstRequest
    \/ LlmToolCall
    \/ LlmFollowUp
    \/ LlmFinal

SpecLlm == InitLlm /\ [][NextLlm]_vars

\* ------------------------------------------ the timer and scan of ambient_loop
MaxTicks == 2
MaxClock == 2
MaxStoreLines == 3

\* What the ambient loop's timer and scan leave alone.
offAmbient == <<tailVars, cmdVars, saveVars, faults, parseVars, llmVars>>

\* timer.tick().await completes: at once the first time, then when the
\* deadline has come; a missed deadline is made up for at once, the next
\* deadline being one period after the last (MissedTickBehavior::Burst).
\* Then the scan with cutoff Utc::now() - interval_secs, `continue` when
\* nothing is new, else the call of summarize_with_llm.
TimerTick ==
    /\ apos = "wait" /\ ticks < MaxTicks
    /\ now >= nextTick
    /\ nextTick' = nextTick + Interval
    /\ ticks' = ticks + 1
    /\ LET found == AmbientItems(SplitStore(store, <<>>), now - Interval)
       IN /\ new_items' = found
          /\ apos' = IF NothingNew(found) THEN "wait" ELSE "busy"
    /\ seen' = Len(SelectSeq(SplitStore(store, <<>>), IsEntry))
    /\ UNCHANGED <<store, storeVars>>
    /\ UNCHANGED offAmbient

\* summarize_with_llm has returned and the match on its result (the save
\* or the report of the error) is over: back to timer.tick().await.
SummaryDone ==
    /\ apos = "busy"
    /\ apos' = "wait"
    /\ UNCHANGED <<nextTick, ticks, new_items, seen>>
    /\ UNCHANGED <<store, storeVars>>
    /\ UNCHANGED offAmbient

\* Time passes; a tick that is due and awaited fires first.
TimePasses ==
    /\ now < MaxClock
    /\ apos = "wait" => (now < nextTick \/ ticks = MaxTicks)
    /\ now' = now + 1
    /\ UNCHANGED <<store, appenders, apc, entry, appended, rpc, start,
                   max_items, items>>
    /\ UNCHANGED offStore

\* The lines a store may hold: records, a line that is no JSON, a record
\* cut short, a line that is no UTF-8.
StoreLineChoices ==
    {<<UrlChunk(<<"http://", "a">>), TsChunk(0)>>,
     <<UrlChunk(<<"https://", "b">>), TsChunk(1)>>,
     <<Junk>>, <<UrlChunk(<<"http://", "a">>)>>, <<Garbled>>}

RECURSIVE StoresOf(_)
StoresOf(n) ==
    IF n = 0 THEN {<<>>}
    ELSE StoresOf(n - 1) \cup
         {st \o l \o <<StoreNL>> :
             st \in {t \in StoresOf(n - 1) : Len(SplitStore(t, <<>>)) = n - 1},
             l \in StoreLineChoices}

\* The scans of run_analyze and of the ambient loop over a store left by
\* earlier sessions.
InitScan ==
    /\ TailIdle
    /\ store \in StoresOf(MaxStoreLines)
    /\ now \in 0..MaxTime
    /\ appenders = {}
    /\ apc = [a \in Appenders |-> "idle"]
    /\ entry = [a \in Appenders |-> NoEntry]
    /\ appended = <<>>
    /\ rpc = "idle"
    /\ start = 0 /\ max_items = 0 /\ items = <<>>
    /\ SaveIdle
    /\ faults = 0
    /\ ParseIdle
    /\ LlmIdle
    /\ AmbientIdle

NextScan ==
    \/ ReadSince
    \/ AnalyzeReturn
    \/ TimerTick
    \/ SummaryDone

SpecScan == InitScan /\ [][NextScan]_vars

\* Ambient mode: the tailer appends events while the ambient loop ticks.
\* max_items is the cap of the configuration; ambient_loop takes no cap.
InitAmbient ==
    /\ TailIdle
    /\ store = <<>>
    /\ now = 0
    /\ appenders = {1}
    /\ apc = [a \in Appenders |-> "idle"]
    /\ entry = [a \in Appenders |-> NoEntry]
    /\ appended = <<>>
    /\ rpc = "idle"
    /\ start = 0 /\ max_items \in 1..MaxItems /\ items = <<>>
    /\ SaveIdle
    /\ faults = 0
    /\ ParseIdle
    /\ LlmIdle
    /\ AmbientIdle

NextAmbient ==
    \/ \E a \in Appenders : AppendBegin(a)
    \/ \E a \in Appenders : AppendWriteUrl(a)
    \/ \E a \in Appenders : AppendWriteTs(a)
    \/ \E a \in Appenders : AppendNewline(a)
    \/ TimePasses
    \/ TimerTick
    \/ SummaryDone

SpecAmbient == InitAmbient /\ [][NextAmbient]_vars

\* ------------------------------------------------------------ specification
InitCmd ==
    /\ mode \in {"log", "ambient"}
    /\ running = TRUE
    /\ childAlive = TRUE
    /\ spc = "wait"

\* let mut last_position = 0u64; the access log of an earlier session may
\* still be there.
Init ==
    /\ \/ squidInodes = <<>> /\ squidPath = 0
       \/ squidInodes \in {<< <<>> >>, << Append(SquidLine("GET", 0), NL) >>}
          /\ squidPath = 1
    /\ pending = <<>>
    /\ nextLine = 1
    /\ truncations = 0
    /\ everPartial = FALSE
    /\ tpc = "top"
    /\ last_position = 0
    /\ current_size = NoSize
    /\ fd = 0
    /\ InitCmd
    /\ store = <<>>
    /\ StoreIdle
    /\ SaveIdle
    /\ faults = 0
    /\ ParseIdle
    /\ LlmIdle
    /\ AmbientIdle

Next ==
    \/ ProxyCreate
    \/ ProxyAppendLine
    \/ ProxyAppendPartial
    \/ ProxyFinishLine
    \/ Truncate
    \/ Rotate
    \/ LoopTop
    \/ CheckExists
    \/ OpenFile
    \/ ReadLines
    \/ UpdateCursor
    \/ Sleep
    \/ CtrlC
    \/ SignalError
    \/ MonitorFinished
    \/ AmbientFinished
    \/ LeaveBlock
    \/ AbortMonitor
    \/ CommandReturns

Spec == Init /\ [][Next]_vars

\* A monitoring session whose access log is only ever appended to.
NextSession ==
    \/ ProxyCreate
    \/ ProxyAppendLine
    \/ ProxyAppendPartial
    \/ ProxyFinishLine
    \/ LoopTop
    \/ CheckExists
    \/ OpenFile
    \/ ReadLines
    \/ UpdateCursor
    \/ Sleep
    \/ CtrlC
    \/ SignalError
    \/ MonitorFinished
    \/ AmbientFinished
    \/ LeaveBlock
    \/ AbortMonitor
    \/ CommandReturns

SpecSession == Init /\ [][NextSession]_vars

TailerStep ==
    LoopTop \/ CheckExists \/ OpenFile \/ ReadLines \/ UpdateCursor \/ Sleep

\* A step of the tailer task is possible exactly while the task has not
\* returned and has not been cancelled.
TailerEnabled == tpc \notin {"done", "failed", "aborted"}

\* An invariant of SpecSession.
TailerEnabledIsEnabled == TailerEnabled <=> ENABLED <<TailerStep>>_vars

\* The session of a proxy that writes whole lines, under a runtime that
\* keeps polling the tailer task: WF_vars(TailerStep), with
\* ENABLED <<TailerStep>>_vars written out as TailerEnabled.
NextShutdown ==
    \/ ProxyCreate
    \/ ProxyAppendLine
    \/ TailerStep
    \/ CtrlC
    \/ SignalError
    \/ MonitorFinished
    \/ AmbientFinished
    \/ LeaveBlock
    \/ AbortMonitor
    \/ CommandReturns

SpecShutdown ==
    /\ Init /\ [][NextShutdown]_vars
    /\ ([]<>(~TailerEnabled) \/ []<><<TailerStep>>_vars)

\* The store may already hold a line that is no record; one process (the
\* tailer of a log or ambient command) appends to it.
InitStore ==
    /\ TailIdle
    /\ store \in {<<>>, <<Junk, StoreNL>>}
    /\ now = 0
    /\ appenders = {1}
    /\ apc = [a \in Appenders |-> "idle"]
    /\ entry = [a \in Appenders |-> NoEntry]
    /\ appended = <<>>
    /\ rpc = "idle"
    /\ start = 0 /\ max_items = 0 /\ items = <<>>
    /\ SaveIdle
    /\ faults = 0
    /\ ParseIdle
    /\ LlmIdle
    /\ AmbientIdle

NextStore ==
    \/ \E a \in Appenders : AppendBegin(a)
    \/ \E a \in Appenders : AppendWriteUrl(a)
    \/ \E a \in Appenders : AppendWriteTs(a)
    \/ \E a \in Appenders : AppendNewline(a)
    \/ Tick
    \/ ReadSince
    \/ AnalyzeReturn

SpecStore == InitStore /\ [][NextStore]_vars

\* Two processes append to the store at the same time.
InitAppend ==
    /\ TailIdle
    /\ store \in {<<>>, <<Junk, StoreNL>>}
    /\ now = 0
    /\ appenders = {1, 2}
    /\ apc = [a \in Appenders |-> "idle"]
    /\ entry = [a \in Appenders |-> NoEntry]
    /\ appended = <<>>
    /\ rpc = "idle"
    /\ start = 0 /\ max_items = 0 /\ items = <<>>
    /\ SaveIdle
    /\ faults = 0
    /\ ParseIdle
    /\ LlmIdle
    /\ AmbientIdle

NextAppend ==
    \/ \E a \in Appenders : AppendBegin(a)
    \/ \E a \in Appenders : AppendWriteUrl(a)
    \/ \E a \in Appenders : AppendWriteTs(a)
    \/ \E a \in Appenders : AppendNewline(a)
    \/ Tick

SpecAppend == InitAppend /\ [][NextAppend]_vars

\* The store holds one event, of this session or of an earlier one; the
\* summary file is absent or holds an earlier summary; one command runs, or
\* the ambient loop and analyze both.
InitSave ==
    /\ TailIdle
    /\ \E t \in {-1, 0} : store = RecordBytes(<<"http://", "a">>, t)
    /\ StoreIdle
    /\ \/ /\ fsInodes = [i \in InodeIds |-> <<>>]
          /\ paths = [f \in {"tmp", "canon"} |-> 0]
          /\ committed = DefaultState
       \/ /\ fsInodes = [i \in InodeIds |->
                            IF i = 1 THEN Serialize([text |-> "s0", updated |-> 0])
                            ELSE <<>>]
          /\ paths = [f \in {"tmp", "canon"} |-> IF f = "canon" THEN 1 ELSE 0]
          /\ committed = [text |-> "s0", updated |-> 0]
    /\ savers \in {{"ambient"}, {"analyze"}, {"ambient", "analyze"}}
    /\ vpc = [p \in Savers |-> "idle"]
    /\ prev = [p \in Savers |-> DefaultState]
    /\ outcome = [p \in Savers |-> "none"]
    /\ next_state = [p \in Savers |-> DefaultState]
    /\ sfd = [p \in Savers |-> 0]
    /\ rounds = [p \in Savers |-> 0]
    /\ faults = 0
    /\ ParseIdle
    /\ LlmIdle
    /\ AmbientIdle
    /\ anySaved = FALSE

NextSave ==
    \/ AmbientTick
    \/ AnalyzeStart
    \/ \E p \in Savers : Summarize(p)
    \/ \E p \in Savers : SaveOpen(p)
    \/ \E p \in Savers : SaveWrite(p)
    \/ \E p \in Savers : SaveWriteRest(p)
    \/ \E p \in Savers : SaveRename(p)
    \/ \E p \in Savers : Crash(p)
    \/ \E p \in Savers : Restart(p)
    \/ Tick

SpecSave == InitSave /\ [][NextSave]_vars

\* --------------------------------------------------- the summary's claims
Canon == IF paths["canon"] = 0 THEN <<>> ELSE fsInodes[paths["canon"]]

AtRest(p) == vpc[p] \in {"idle", "returned"}

\* C4: with a single writer, whatever step of save fails or is cut short by
\* a crash, load() observes the state last committed by a rename (at first
\* the state on disk) and the summary file is never a partial one.
C4_SaveIsAtomic ==
    Cardinality(savers) = 1 =>
        /\ Load = committed
        /\ paths["canon"] # 0 => IsState(Canon)

\* A save failed or was killed after writing part of the temp file, and
\* load() still returns the earlier summary.
C4_Witness ==
    /\ Cardinality(savers) = 1
    /\ faults = 1
    /\ \A p \in Savers : ~InSave(p)
    /\ paths["tmp"] # 0 /\ Len(fsInodes[paths["tmp"]]) = 1
    /\ Load = [text |-> "s0", updated |-> 0]

\* C5: a command is inside save only after summarize_with_llm returned Ok;
\* after a failed call of the only writer, load() returns what it returned
\* before the call.
C5_NoSaveAfterFailedSummary ==
    \A p \in Savers :
        /\ InSave(p) => outcome[p] = "ok"
        /\ (Cardinality(savers) = 1 /\ outcome[p] \in {"err", "panic"})
               => Load = prev[p]

C5_Witness ==
    \E p \in Savers :
        /\ outcome[p] = "err" /\ vpc[p] = Rest(p)
        /\ Load = [text |-> "s0", updated |-> 0]
        /\ now = 1

\* C10: when the ambient loop and analyze have both run save and no I/O
\* error or kill occurred, the summary file holds exactly the state passed
\* to the last save() that returned Ok.
C10_LastSuccessfulSaveWins ==
    (savers = Savers /\ faults = 0 /\ anySaved
       /\ \A p \in Savers : AtRest(p) /\ rounds[p] >= 1)
        => Canon = Serialize(committed)

\* C13: an ambient tick that finds no event at or after now - interval in
\* the store does not call summarize_with_llm (the loop stays before its
\* next tick, no call outcome is recorded) and leaves the summary file and
\* what load() returns as they were.
C13_EmptyTickDoesNothing ==
    [][(/\ vpc["ambient"] = "idle"
        /\ rounds'["ambient"] = rounds["ambient"] + 1
        /\ AmbientItems(SplitStore(store, <<>>), now - Interval) = <<>>)
       => (/\ vpc'["ambient"] = "idle"
           /\ outcome'["ambient"] = "none"
           /\ Canon' = Canon
           /\ Load' = Load)]_vars

\* The loop after a tick that found the store's only event too old.
C13_Witness ==
    /\ rounds["ambient"] = 1 /\ vpc["ambient"] = "idle"
    /\ outcome["ambient"] = "none"
    /\ AmbientItems(SplitStore(store, <<>>), now - Interval) = <<>>
    /\ store # <<>>
    /\ Load = [text |-> "s0", updated |-> 0]

\* ---------------------------------------------------- the parser's claims
IsConnectLine == Len(fields) >= 8 /\ fields[6] = <<"CONNECT">>

HasScheme(url) == StartsWith(url, "http://") \/ StartsWith(url, "https://")

\* C15 as stated: for every line of at least 8 fields whose method is
\* CONNECT, the parser returns https://<8th field>, whatever the 7th field.
C15_ConnectUsesHost ==
    (ppc = "done" /\ IsConnectLine) => parsed = <<"https://">> \o fields[8]

\* C15 amended: for every line of at least 8 fields whose method is CONNECT,
\* the parser returns https://<8th field> unless the 7th field starts with
\* http:// or https://, and then it returns the 7th field.
C15_ConnectUsesHostUnlessUrl ==
    (ppc = "done" /\ IsConnectLine) =>
        parsed = IF HasScheme(fields[7]) THEN fields[7]
                 ELSE <<"https://">> \o fields[8]

\* A CONNECT line whose target and Host header differ, parsed.
C15_Witness ==
    /\ ppc = "done" /\ IsConnectLine
    /\ fields[7] = <<"h", "1", ":443">>
    /\ parsed = <<"https://", "h", "2", ":443">>

\* C19: whatever the outcome of a summarize_with_llm call made by the
\* ambient loop (an error, a response without choices, a failed save), the
\* loop, unless the process is killed, is on its way to the next tick:
\* inside save, or waiting for the tick.
C19_SchedulerSurvivesCall ==
    (outcome["ambient"] # "none" /\ vpc["ambient"] # "crashed")
        => (InSave("ambient") \/ vpc["ambient"] = "idle")

\* ----------------------------------------------- the orchestrator's claims
AskedForTools(r) == r # NoResponse /\ r[1].tool_calls # None

\* The text of a response, empty when it has none.
TextOf(r) == IF r[1].content # None THEN r[1].content ELSE Some("")

C20_FollowUpTextReturned ==
    lpc = "done" =>
        result = IF requests = 2 THEN TextOf(second) ELSE TextOf(first)

\* ------------------------------------------------------- the store's claims
\* The urls of the entries at or after a cutoff, in order.
RECURSIVE UrlsSince(_, _)
UrlsSince(entries, cutoff) ==
    IF entries = <<>> THEN <<>>
    ELSE (IF Head(entries).ts >= cutoff THEN <<Head(entries).url>> ELSE <<>>)
         \o UrlsSince(Tail(entries), cutoff)

StoreLines == SplitStore(store, <<>>)

AllIdle == \A a \in Appenders : apc[a] = "idle"

\* C6: the read-since scan of run_analyze never collects more than max_items
\* urls, whatever the store, the cutoff and the cap (0 included).
C6_ScanAtMostLimit ==
    rpc = "done" => Len(items) <= max_items

\* C7: after a sequence of appends, all of them returned, a
\* scan with a cap at least the number of lines of the store returns exactly
\* the urls of the appended entries with ts >= cutoff, in append order.
C7_AppendReadRoundTrip ==
    (rpc = "done" /\ AllIdle /\ max_items >= Len(StoreLines))
        => items = UrlsSince(appended, start)

C7_Witness ==
    /\ rpc = "done" /\ AllIdle
    /\ max_items >= Len(StoreLines)
    /\ Len(appended) = 3
    /\ Len(items) = 2
    /\ items[1] # items[2]

\* C9: once concurrent appenders have returned, every line of the store is
\* one whole record (or the line that was there before): no line holds
\* chunks of two append calls.
C9_WholeRecordsOnly ==
    AllIdle => \A i \in 1..Len(StoreLines) :
                   IsEntry(StoreLines[i]) \/ StoreLines[i] = <<Junk>>

\* The urls of the records of the store at or after a cutoff, in order,
\* every other line passed over.
RECURSIVE ValidUrlsSince(_, _)
ValidUrlsSince(lines, cutoff) ==
    IF lines = <<>> THEN <<>>
    ELSE (IF IsEntry(Head(lines)) /\ Head(lines)[2].t >= cutoff
          THEN <<Head(lines)[1].u>> ELSE <<>>)
         \o ValidUrlsSince(Tail(lines), cutoff)

\* C21: a line of the store that is no record (no JSON, a record cut short,
\* bytes that are no text) is passed over and the scan goes on: with a cap
\* no smaller than the number of lines the analyze scan returns the url of
\* every record at or after its cutoff, and so does the ambient scan of a
\* tick, the records after the bad line included.
C21_BadLinesSkipped ==
    /\ (rpc = "done" /\ max_items >= Len(StoreLines))
           => items = ValidUrlsSince(StoreLines, start)
    /\ ticks >= 1 => new_items = ValidUrlsSince(StoreLines, now - Interval)

\* C22: the batch of urls a tick of the ambient loop hands to
\* summarize_with_llm is never longer than the configured cap max_items,
\* however many records are at or after the cutoff.
C22_AmbientBatchCapped ==
    apos = "busy" => Len(new_items) <= max_items

\* ------------------------------------------------------ the tailer's claims
\* Offset just after the last terminator of a file, 0 when it has none.
LastLineEnd(bytes) ==
    LET ends == {i \in 1..Len(bytes) : bytes[i] = NL}
    IN IF ends = {} THEN 0 ELSE CHOOSE i \in ends : \A j \in ends : j <= i

\* The urls of the terminated lines of a file.
CompleteUrls(bytes) ==
    ParsedUrls(SplitLines(SubSeq(bytes, 1, LastLineEnd(bytes)), <<>>))

Range(seq) == {seq[i] : i \in 1..Len(seq)}

Occurrences(seq, x) == Cardinality({i \in 1..Len(seq) : seq[i] = x})

\* C1: a poll that opened the access log and found it smaller than the
\* cursor leaves the cursor at the file's length: at the end of every poll
\* that read the file's size, cursor <= that size.
C1_CursorResetOnTruncation ==
    (tpc = "sleep" /\ current_size # NoSize) => last_position <= current_size

\* C2: an unterminated trailing line is not consumed: while the log has not
\* been truncated, every event comes from a terminated line and the cursor
\* is never beyond the end of the last terminated line.
C2_PartialLineNotConsumed ==
    truncations = 0 =>
        /\ Range(StoreUrls) \subseteq Range(CompleteUrls(squidLog))
        /\ last_position <= LastLineEnd(squidLog)

\* C3: with no truncation and a proxy that writes whole lines only, no line
\* of the access log yields more than one event.
C3_NoLineProcessedTwice ==
    (truncations = 0 /\ ~everPartial) =>
        \A u \in Range(StoreUrls) : Occurrences(StoreUrls, u) <= 1

IsPrefix(s, t) == Len(s) <= Len(t) /\ SubSeq(t, 1, Len(s)) = s

\* C14: over a log of whole lines (no truncation, no failed append), the
\* urls of the store are at any time those of the first lines of the log, in
\* file order, unrecognized lines omitted, and after a poll that reached the
\* end of the file those of all its lines.
C14_EventsFollowLogOrder ==
    (truncations = 0 /\ ~everPartial /\ faults = 0) =>
        LET urls == ParsedUrls(SplitLines(squidLog, <<>>))
        IN /\ IsPrefix(StoreUrls, urls)
           /\ (tpc = "sleep" /\ last_position = Len(squidLog))
                  => StoreUrls = urls

\* The url of the line the access log held before the session started.
EarlierUrl == parse_squid_log_line(SquidLine("GET", 0))

\* C16: the session starts with its cursor at the end of the access log:
\* a line that was in the file before the session started is never turned
\* into an event by this session.
C16_CursorStartsAtEnd ==
    EarlierUrl \notin Range(StoreUrls)

\* C17: in a session whose access log is never truncated or rotated the
\* cursor never decreases and is never beyond the end of the file.
C17_CursorMonotoneWithinFile ==
    /\ [](last_position <= Len(squidLog))
    /\ [][last_position' >= last_position]_vars

\* The cursor has been moved past the first lines of the file, and the file
\* has grown beyond it by the first part of a line.
C17_Witness ==
    /\ tpc = "sleep" /\ everPartial
    /\ last_position > 12
    /\ Len(squidLog) > last_position

\* C8: no failure of a step of a poll ends the tailing loop: while the
\* running flag is set the task has not returned, and in ambient mode the
\* command is only shut down with the task still alive.
C8_StepFailureKeepsLoop ==
    /\ running => tpc # "failed"
    /\ (mode = "ambient" /\ spc = "stopped") => tpc # "failed"

\* ----------------------------------------------------- the commands' claims
\* C11: whichever way the log or ambient command ends (the interrupt, an
\* error of signal::ctrl_c(), the tailer task or the ambient task
\* finishing), when it returns the running flag is cleared and the proxy
\* child has been killed.
C11_ChildStoppedOnEveryExit ==
    spc = "returned" => (~running /\ ~childAlive)

\* run_log left through the `?` of ctrl_c: stop was only called by the drop.
C11_Witness ==
    /\ spc = "returned" /\ mode = "log"
    /\ faults = 1 /\ tpc = "aborted"
    /\ ~running /\ ~childAlive
    /\ last_position > 0

TailerExited == tpc \in {"done", "failed", "aborted"}

\* C12: once the running flag is cleared the tailer starts no new poll and
\* eventually exits; a poll under way is not cut short: the task is only
\* cancelled at the inter-poll sleep, and a poll that has read its lines
\* goes on to the cursor update.
C12_FlagStopsTailer ==
    /\ [][(~running /\ tpc = "top") => tpc' \in {"top", "done"}]_vars
    /\ [][tpc' = "aborted" => tpc \in {"sleep", "aborted"}]_vars
    /\ [][tpc = "update" =>
            \/ tpc' = "update" /\ last_position' = last_position
            \/ tpc' = "sleep" /\ last_position' = current_size]_vars
    /\ (~running ~> TailerExited)

\* The flag was cleared and the command is shutting down while a poll that
\* has appended its events has yet to update the cursor.
C12_Witness ==
    /\ ~running /\ spc = "shutdown"
    /\ tpc = "update" /\ store # <<>>
\* ------------------------------------------------- the ambient loop's claims
\* The urls of the records the store holds beyond those of the last scan.
FreshUrls ==
    LET recs == SelectSeq(StoreLines, IsEntry)
    IN [j \in 1..(Len(recs) - seen) |-> recs[seen + j][1].u]

\* C23: while the ambient loop runs, every event appended to the store is in
\* the batch of a later tick, whatever the timing of the ticks and of the
\* summarization in flight. The cutoff of a tick is never earlier than the
\* cutoff of the tick before, so a record in the store at a tick and not in
\* its batch is in no later batch: each tick's batch holds every record
\* that came to the store since the scan of the tick before.
C23_EveryEventReachesATick ==
    [][ticks' = ticks + 1 =>
          \A u \in Range(FreshUrls) :
              Occurrences(new_items', u) >= Occurrences(FreshUrls, u)]_vars

TypeOK ==
    /\ squidPath \in 0..Len(squidInodes)
    /\ tpc \in {"top", "exists", "open", "read", "update", "sleep",
                "done", "failed", "aborted"}
    /\ last_position \in Nat
    /\ current_size \in Nat \cup {NoSize}
    /\ spc \in {"wait", "stopped", "shutdown", "returned"}
    /\ ppc \in {"input", "done"}
    /\ lpc \in {"start", "tools", "final", "done", "err", "panic"}
    /\ requests \in Nat /\ toolMessages \in Nat
    /\ apos \in {"wait", "busy"}
    /\ ticks \in 0..MaxTicks /\ nextTick = ticks * Interval
    /\ seen \in Nat
====
